---- MODULE Spec2Model ----
(***************************************************************************)
(* A model of the Philips Hue MCP server:                                  *)
(*   - HueClient (src/src/hue-client.ts): the promise chain `pending` that *)
(*     serialises bridge calls, the three-attempt loop, the 10 s timeout,  *)
(*     setRoomState and activateScene;                                     *)
(*   - the /mcp endpoint (src/src/index.ts): the session table             *)
(*     `transports` and the POST, GET and DELETE handlers;                 *)
(*   - the tools (src/README.md): parseColor, the handlers registered on   *)
(*     the server, and the requests the setup tools send themselves.       *)
(***************************************************************************)
EXTENDS Naturals, Integers, Sequences, FiniteSets, TLC

(***************************************************************************)
(* Bounds of the model                                                     *)
(***************************************************************************)
\* number of calls of HueClient.request in one run
MaxCalls == 3
\* number of attempts the network lets fail (error or hang) in one run
MaxFaults == 3
\* number of requests and transport closes the /mcp endpoint sees in one run
MaxEvents == 4
\* number of tool invocations in one run
MaxTools == 1
\* the requested brightness of a brightness tool is k / BriSteps, k in 0..BriSteps
BriSteps == 100

(***************************************************************************)
(* Values                                                                  *)
(***************************************************************************)
\* the value of an optional argument or field that is absent
Undefined == "undefined"

\* JSON documents the bridge answers with: a scene list is an object
\* id -> {group?}, written here as a set of <<id, group>> pairs
DocScenes == {<<"s1", "1">>, <<"s2", Undefined>>}
DocEmpty == {}
\* the bridge's answer to any other request
DocOther == {<<"success", "true">>}
\* the light list: an object id -> {state: {on}}, written as <<id, on>> pairs
DocLights == {<<"1", "true">>, <<"2", "false">>}
\* one light: {state: {on}}, written as the pair <<"state", on>>
DocLight == {<<"state", "true">>}
\* the bridge refuses the credential: [{error: {description}}]
DocUnauthorized == {<<"error", "unauthorized user">>}
\* the message of the TypeError `d.state.on` throws when d has no state
TypeErrorText == "Cannot read properties of undefined (reading 'on')"
\* what the bridge may answer on a path
Answers(path) ==
  CASE path = "/scenes" -> {DocScenes, DocEmpty}
    [] path = "/lights" -> {DocLights}
    [] path = "/lights/1" -> {DocLight, DocUnauthorized}
    [] path \in {"/lights/1/state", "/groups/1/action"} -> {DocOther, DocUnauthorized}
    [] OTHER -> {DocOther}

\* errors the 'error' event of a request carries
NetErrors == {"ECONNRESET"}
TimeoutError == "timeout"

SceneIds == {"s1", "s2"}
\* the groupId argument of activateScene: absent, empty or a group
GroupArgs == {Undefined, "", "2"}
RoomIds == {"0", "1"}
\* state objects handed to setRoomState, as sets of <<field, value>>
RoomStates == {{<<"on", "false">>}, {<<"on", "true">>, <<"bri", "127">>}}

\* the calls the callers make: room "0" is switched off, room "1" is dimmed;
\* scene "s1" is activated with an empty or a given group, "s2" with none
RoomCalls ==
  {<<id, state>> \in RoomIds \X RoomStates : (id = "0") <=> (state = {<<"on", "false">>})}
SceneCalls ==
  {<<s, g>> \in SceneIds \X GroupArgs : (s = "s2") <=> (g = Undefined)}

\* no conversion is under way
NoArg == [fn |-> "none"]
NoRet == [kind |-> "none"]

NoResult == [kind |-> "none", err |-> "", doc |-> {}]
Resolved(d) == [kind |-> "resolve", err |-> "", doc |-> d]
Rejected(e) == [kind |-> "reject", err |-> e, doc |-> {}]

VARIABLES
  ops,        \* the operations callers invoked on the client, in order of invocation
  calls,      \* the calls of request(), in submission order
  pending,    \* this.pending: the call whose promise is the chain's tail (0: the initial resolved promise)
  wire,       \* every HTTP exchange started, in order of start, with how it ended
  result,     \* the settlement of each call's promise
  crashed,    \* an exception escaped an event listener: the process is gone
  transports, \* the session table: session identifier -> transport
  tr,         \* the transports created, each with its sessionId and whether it has closed
  issued,     \* the identifiers randomUUID has returned
  events,     \* the requests /mcp answered and the transport closes, in order
  HUE_BRIDGE_IP, \* the bridge address the process read from its environment
  HUE_USERNAME,  \* the bridge credential the process read from its environment
  toolCalls,  \* the tool invocations the server handled, in order
  arg,        \* the input handed to a conversion
  ret         \* what the conversion returned

clientVars == <<ops, calls, pending, wire, result, crashed>>
sessionVars == <<transports, tr, issued, events>>
toolVars == <<HUE_BRIDGE_IP, HUE_USERNAME, toolCalls, arg, ret>>
vars == <<ops, calls, pending, wire, result, crashed, transports, tr, issued, events,
          HUE_BRIDGE_IP, HUE_USERNAME, toolCalls, arg, ret>>

\* a serialiser that writes every field, the undefined ones too
JSONstringifyKeepsAll(body) == body

\* JSON.stringify drops the fields whose value is undefined
JSONstringify(body) == {f \in body : f[2] # Undefined}

\* JS truthiness of an optional string
Truthy(s) == s # Undefined /\ s # ""

(***************************************************************************)
(* HueClient.request                                                       *)
(***************************************************************************)
\* the exchanges of call c, in order
AttemptsOf(c) == SelectSeq(wire, LAMBDA w : w.call = c)

\* the exchange in flight for call c
InFlight(c) == \E k \in 1..Len(wire) : wire[k].call = c /\ wire[k].end = "open"

Settled(c) == result[c].kind # "none"

\* https.request(...): a new exchange of call c, its i-th attempt
Exchange(c, i) ==
  [call |-> c, i |-> i, method |-> calls[c].method, path |-> calls[c].path,
   hasBody |-> calls[c].hasBody,
   body |-> IF calls[c].hasBody THEN JSONstringify(calls[c].body) ELSE {},
   end |-> "open", err |-> "", doc |-> {}]

\* the wire with the open exchange of call c closed
CloseExchange(c, how, e, d) ==
  [k \in 1..Len(wire) |->
     IF wire[k].call = c /\ wire[k].end = "open"
     THEN [wire[k] EXCEPT !.end = how, !.err = e, !.doc = d]
     ELSE wire[k]]

\* a chain that does not wait: fn is called at once
ChainReadyNoWait(c) == TRUE

\* a chain that lets the next call run as soon as the first attempt of the
\* call before it has ended, whether or not that call goes on to retry
ChainReadyOnAttempt(c) ==
  IF calls[c].prev = 0 THEN TRUE
  ELSE \E k \in 1..Len(wire) : wire[k].call = calls[c].prev /\ wire[k].end # "open"

\* a chain that the handlers' own requests go through as well: a call waits
\* for the pairing or discovery request that is in flight
ChainReadyAfterDirect(c) ==
  /\ IF calls[c].prev = 0 THEN TRUE ELSE result[calls[c].prev].kind # "none"
  /\ \A k \in 1..Len(toolCalls) : toolCalls[k].direct # "open"

\* this.pending.then(fn, fn): fn runs once the promise it was chained on has
\* settled, resolved or rejected
ChainReady(c) == IF calls[c].prev = 0 THEN TRUE ELSE Settled(calls[c].prev)

\* `for (let i = 0; i < 3; i++)`
LoopBound == 3

\* a loop that gives up one attempt early
IsLastAttemptEarly(i) == i = 1

\* `if (i === 2) throw e`: the attempt index at which a failure is rethrown
IsLastAttempt(i) == i = 2

\* a request chained on a fresh promise instead of this.pending
RequestUnchained(op, method, path, hasBody, body, res) ==
  /\ calls' = Append(calls, [op |-> op, method |-> method, path |-> path,
                             hasBody |-> hasBody, body |-> body, prev |-> 0])
  /\ pending' = Len(calls) + 1
  /\ result' = Append(res, NoResult)

\* a chain without the rejection handler, `this.pending.then(fn)`: a call
\* chained on a promise that has rejected rejects with that error, unrun
RequestThenOnly(op, method, path, hasBody, body, res) ==
  /\ calls' = Append(calls, [op |-> op, method |-> method, path |-> path,
                             hasBody |-> hasBody, body |-> body, prev |-> pending])
  /\ pending' = Len(calls) + 1
  /\ result' = Append(res, IF pending = 0 THEN NoResult
                           ELSE IF res[pending].kind = "reject" THEN res[pending]
                           ELSE NoResult)

\* request(method, path, body): `return this.pending = this.pending.then(fn, fn)`
\* (res: the settlements so far, to which the new call's is added)
Request(op, method, path, hasBody, body, res) ==
  /\ calls' = Append(calls, [op |-> op, method |-> method, path |-> path,
                             hasBody |-> hasBody, body |-> body, prev |-> pending])
  /\ pending' = Len(calls) + 1
  /\ result' = Append(res, NoResult)

\* fn starts: the first attempt of call c, once the chain lets it run
StartCall(c) ==
  /\ ~crashed
  /\ AttemptsOf(c) = << >>
  /\ ChainReady(c)
  /\ 0 < LoopBound
  /\ wire' = Append(wire, Exchange(c, 0))
  /\ UNCHANGED <<ops, calls, pending, result, crashed>>
  /\ UNCHANGED <<sessionVars, toolVars>>

(***************************************************************************)
(* Scenes                                                                  *)
(***************************************************************************)
\* getScenes: Object.entries(data).map(([id, d]) => ({id, group: d.group}))
GetScenes(data) == {[id |-> e[1], group |-> e[2]] : e \in data}

\* a lookup that ignores the group recorded for the scene
SceneGroupAlwaysAll(scenes, sceneId) == "0"

\* scenes.find(s => s.id === sceneId)?.group || '0'
SceneGroup(scenes, sceneId) ==
  IF \E s \in scenes : s.id = sceneId /\ Truthy(s.group)
  THEN (CHOOSE s \in scenes : s.id = sceneId /\ Truthy(s.group)).group
  ELSE "0"

\* the state path of a light, used for a group
LightStatePath(g) == "/lights/" \o g \o "/state"

\* `/groups/${id}/action`
GroupActionPath(g) == "/groups/" \o g \o "/action"

\* the body of the scene-select PUT
SceneBody(sceneId) == {<<"scene", sceneId>>}

\* an activation whose PUT goes out beside the queue, on a promise of its own
LookupContinuationUnchained(o, data, res) ==
  RequestUnchained(o, "PUT", GroupActionPath(SceneGroup(GetScenes(data), ops[o].scene)),
                   TRUE, SceneBody(ops[o].scene), res)

\* activateScene, after `await this.getScenes()`: the scene-select PUT of
\* operation o, which looked the scene up in `data`
LookupContinuation(o, data, res) ==
  Request(o, "PUT", GroupActionPath(SceneGroup(GetScenes(data), ops[o].scene)),
          TRUE, SceneBody(ops[o].scene), res)

\* call c is the GET /scenes of an activateScene that was given no group
IsLookup(c) == ops[calls[c].op].kind = "activateScene" /\ calls[c].method = "GET"

(***************************************************************************)
(* One attempt: the events of its exchange                                 *)
(***************************************************************************)
\* a loop that goes on after an attempt has succeeded:
\* `try { await attempt(); }` without the return
ResponseEndGoesOn(c, d) ==
  LET i == Len(AttemptsOf(c)) - 1 IN
  /\ ~crashed
  /\ InFlight(c)
  /\ d \in Answers(calls[c].path)
  /\ IF i + 1 < 3
     THEN /\ wire' = Append(CloseExchange(c, "ok", "", d), Exchange(c, i + 1))
          /\ UNCHANGED result
     ELSE /\ wire' = CloseExchange(c, "ok", "", d)
          /\ result' = [result EXCEPT ![c] = Resolved(d)]
  /\ UNCHANGED <<ops, calls, pending, crashed>>
  /\ UNCHANGED <<sessionVars, toolVars>>

\* res 'end' with a body that parses: clearTimeout, resolve(JSON.parse(data));
\* fn returns it, the call's promise resolves, and an activateScene waiting
\* for its lookup goes on to its PUT
ResponseEnd(c, d) ==
  /\ ~crashed
  /\ InFlight(c)
  /\ d \in Answers(calls[c].path)
  /\ wire' = CloseExchange(c, "ok", "", d)
  /\ IF IsLookup(c)
     THEN LookupContinuation(calls[c].op, d, [result EXCEPT ![c] = Resolved(d)])
     ELSE /\ result' = [result EXCEPT ![c] = Resolved(d)]
          /\ UNCHANGED <<calls, pending>>
  /\ UNCHANGED <<ops, crashed>>
  /\ UNCHANGED <<sessionVars, toolVars>>

\* res 'end' with a body that is not JSON: clearTimeout, then JSON.parse
\* throws inside the listener, where nothing catches it
ResponseBadJson(c) ==
  /\ ~crashed
  /\ InFlight(c)
  /\ wire' = CloseExchange(c, "badjson", "", {})
  /\ crashed' = TRUE
  /\ UNCHANGED <<ops, calls, pending, result>>
  /\ UNCHANGED <<sessionVars, toolVars>>

\* the i of the attempt of call c that is in flight
CurrentAttempt(c) == Len(AttemptsOf(c)) - 1

\* a loop in which an attempt that timed out is run again without counting
AttemptFailedTimeoutFree(c, how, e) ==
  LET i == CurrentAttempt(c)
      closed == CloseExchange(c, how, e, {})
  IN IF how # "destroyed" /\ (i = 2 \/ ~(i + 1 < 3))
     THEN /\ wire' = closed
          /\ result' = [result EXCEPT ![c] = Rejected(e)]
     ELSE /\ wire' = Append(closed, Exchange(c, IF how = "destroyed" THEN i ELSE i + 1))
          /\ UNCHANGED result

\* `catch (e) { if (i === 2) throw e; }`: attempt i of call c rejected with
\* e; the loop goes on to attempt i+1, or fn throws e and the call rejects
AttemptFailed(c, how, e) ==
  LET i == CurrentAttempt(c)
      closed == CloseExchange(c, how, e, {})
  IN IF IsLastAttempt(i) \/ ~(i + 1 < LoopBound)
     THEN /\ wire' = closed
          /\ result' = [result EXCEPT ![c] =
                          IF IsLastAttempt(i) THEN Rejected(e) ELSE Resolved({})]
     ELSE /\ wire' = Append(closed, Exchange(c, i + 1))
          /\ UNCHANGED result

\* the attempts that failed so far
Faults == Cardinality({k \in 1..Len(wire) : wire[k].end \in {"error", "destroyed"}})

\* req 'error': clearTimeout, reject(e)
RequestError(c, e) ==
  /\ ~crashed
  /\ InFlight(c)
  /\ Faults < MaxFaults
  /\ AttemptFailed(c, "error", e)
  /\ UNCHANGED <<ops, calls, pending, crashed>>
  /\ UNCHANGED <<sessionVars, toolVars>>

\* the 10 s timer fires before the exchange has ended: req.destroy(),
\* reject(new Error('timeout'))
Timeout(c) ==
  /\ ~crashed
  /\ InFlight(c)
  /\ Faults < MaxFaults
  /\ AttemptFailed(c, "destroyed", TimeoutError)
  /\ UNCHANGED <<ops, calls, pending, crashed>>
  /\ UNCHANGED <<sessionVars, toolVars>>

(***************************************************************************)
(* Operations of the client                                                *)
(***************************************************************************)
Op(kind, id, scene, state) == [kind |-> kind, id |-> id, scene |-> scene, state |-> state]

\* calls still to come from the activateScene operations waiting for their lookup
Reserved ==
  Cardinality({c \in 1..Len(calls) : IsLookup(c) /\ result[c].kind = "none"})

Room(n) == Len(calls) + Reserved + n <= MaxCalls

\* getLights(): this.get('/lights')
GetLights ==
  /\ ~crashed
  /\ Room(1)
  /\ ops' = Append(ops, Op("getLights", Undefined, Undefined, {}))
  /\ Request(Len(ops) + 1, "GET", "/lights", FALSE, {}, result)
  /\ UNCHANGED <<wire, crashed>>
  /\ UNCHANGED <<sessionVars, toolVars>>

\* setRoomState(id, state): this.put(`/groups/${id}/action`, state)
SetRoomState(id, state) ==
  /\ ~crashed
  /\ Room(1)
  /\ ops' = Append(ops, Op("setRoomState", id, Undefined, state))
  /\ Request(Len(ops) + 1, "PUT", GroupActionPath(id), TRUE, state, result)
  /\ UNCHANGED <<wire, crashed>>
  /\ UNCHANGED <<sessionVars, toolVars>>

\* activateScene(sceneId, groupId): with a group, the PUT at once; without,
\* getScenes() first (this.get('/scenes')), the PUT after it
ActivateScene(sceneId, groupId) ==
  /\ ~crashed
  /\ ops' = Append(ops, Op("activateScene", groupId, sceneId, {}))
  /\ IF Truthy(groupId)
     THEN /\ Room(1)
          /\ Request(Len(ops) + 1, "PUT", GroupActionPath(groupId), TRUE,
                     SceneBody(sceneId), result)
     ELSE /\ Room(2)
          /\ Request(Len(ops) + 1, "GET", "/scenes", FALSE, {}, result)
  /\ UNCHANGED <<wire, crashed>>
  /\ UNCHANGED <<sessionVars, toolVars>>

(***************************************************************************)
(* The /mcp endpoint: the session table and the three handlers             *)
(***************************************************************************)
\* the identifiers randomUUID can return; it never returns one twice
UUIDs == {"u1", "u2"}

\* the mcp-session-id header of a request: absent, empty or an identifier
SessionHeaders == {Undefined, ""} \cup UUIDs

NoTransport == 0

\* the record of one answered request or of one transport close
Event(verb, sid, init, status, body, code, to, made) ==
  [verb |-> verb, sid |-> sid, init |-> init, status |-> status, body |-> body,
   code |-> code, to |-> to, made |-> made]

\* `sessionId && transports[sessionId]`
Known(sid) == IF Truthy(sid) THEN sid \in DOMAIN transports ELSE FALSE

\* a test that takes any initialize request for a handshake
IsHandshakeAnySid(sid, init) == init

\* a test that takes an initialize request for a handshake unless its
\* identifier is that of a session in the table
IsHandshakeStale(sid, init) == init /\ (~Truthy(sid) \/ sid \notin DOMAIN transports)

\* `!sessionId && isInitializeRequest(req.body)`
IsHandshake(sid, init) == ~Truthy(sid) /\ init

\* a callback that stores nothing
RegisterDropped(table, sid, t) == table

\* onsessioninitialized: `transports[sid] = transport`
Register(table, sid, t) ==
  [x \in DOMAIN table \cup {sid} |-> IF x = sid THEN t ELSE table[x]]

\* an onclose that leaves the table as it is
OnCloseKeeps(table, t) == table

\* an onclose that empties the table
OnCloseClearsAll(table, t) == << >>

\* transport.onclose: `if (transport.sessionId) delete transports[transport.sessionId]`
OnClose(table, t) ==
  IF Truthy(tr[t].sessionId)
  THEN [x \in DOMAIN table \ {tr[t].sessionId} |-> table[x]]
  ELSE table

\* a rejection that carries the code of an internal fault
PostRejectionInternal(sid, init) ==
  Event("POST", sid, init, 400, "envelope", -32603, NoTransport, NoTransport)

\* the answer of POST to a request it does not accept:
\* res.status(400).json({jsonrpc, error: {code: -32000, message}, id: null})
PostRejection(sid, init) ==
  Event("POST", sid, init, 400, "envelope", -32000, NoTransport, NoTransport)

\* the answer of GET and DELETE to a request they do not accept:
\* res.status(400).send('Invalid or missing session ID')
PlainRejection(verb, sid) ==
  Event(verb, sid, FALSE, 400, "text", 0, NoTransport, NoTransport)

\* a handler that hands every request to the first transport created
ForwardedToFirst(verb, sid, init, t, made) ==
  Event(verb, sid, init, 0, "transport", 0, 1, made)

\* transports[sessionId].handleRequest(req, res, ...): the transport answers
Forwarded(verb, sid, init, t, made) ==
  Event(verb, sid, init, 0, "transport", 0, t, made)

\* app.post('/mcp')
Post(sid, init) ==
  /\ Len(events) < MaxEvents
  /\ IF Known(sid)
     THEN /\ events' = Append(events, Forwarded("POST", sid, init, transports[sid], NoTransport))
          /\ UNCHANGED <<transports, tr, issued>>
     ELSE IF IsHandshake(sid, init)
     THEN \E u \in UUIDs \ issued :
            LET t == Len(tr) + 1 IN
            /\ tr' = Append(tr, [sessionId |-> u, closed |-> FALSE])
            /\ issued' = issued \cup {u}
            /\ transports' = Register(transports, u, t)
            /\ events' = Append(events, Forwarded("POST", sid, init, t, t))
     ELSE /\ events' = Append(events, PostRejection(sid, init))
          /\ UNCHANGED <<transports, tr, issued>>
  /\ UNCHANGED <<clientVars, toolVars>>

\* app.get('/mcp')
Get(sid) ==
  /\ Len(events) < MaxEvents
  /\ IF ~Known(sid)
     THEN events' = Append(events, PlainRejection("GET", sid))
     ELSE events' = Append(events, Forwarded("GET", sid, FALSE, transports[sid], NoTransport))
  /\ UNCHANGED <<transports, tr, issued>>
  /\ UNCHANGED <<clientVars, toolVars>>

\* app.delete('/mcp'): the transport that is handed a DELETE closes itself,
\* which calls its onclose
Delete(sid) ==
  /\ Len(events) < MaxEvents
  /\ IF ~Known(sid)
     THEN /\ events' = Append(events, PlainRejection("DELETE", sid))
          /\ UNCHANGED <<transports, tr>>
     ELSE LET t == transports[sid] IN
          /\ events' = Append(events, Forwarded("DELETE", sid, FALSE, t, NoTransport))
          /\ tr' = [tr EXCEPT ![t].closed = TRUE]
          /\ transports' = OnClose(transports, t)
  /\ UNCHANGED issued
  /\ UNCHANGED <<clientVars, toolVars>>

\* a transport closes for another reason (its connection ends, the server
\* closes it): its onclose is called
TransportClose(t) ==
  /\ Len(events) < MaxEvents
  /\ ~tr[t].closed
  /\ events' = Append(events, Event("close", tr[t].sessionId, FALSE, 0, "none", 0, t, NoTransport))
  /\ tr' = [tr EXCEPT ![t].closed = TRUE]
  /\ transports' = OnClose(transports, t)
  /\ UNCHANGED issued
  /\ UNCHANGED <<clientVars, toolVars>>

\* `const transports = {}`
SessionInit ==
  /\ transports = << >>
  /\ tr = << >>
  /\ issued = {}
  /\ events = << >>

(***************************************************************************)
(* Conversions of the tool layer: colours and brightness                   *)
(***************************************************************************)
Min(a, b) == IF a < b THEN a ELSE b
Max(a, b) == IF a < b THEN b ELSE a

\* Math.round of the non-negative quotient p/q: the nearest integer, a half
\* going up (the quotient is taken exactly)
MathRound(p, q) == (2 * p + q) \div (2 * q)

\* a colour expression stands here for what colord makes of it: whether it
\* is valid and, when it is, the h, s, l of toHsl() (h in degrees, s and l in
\* percent, rounded by colord) and its alpha channel, in percent
Css(h, s, l, a) == [text |-> "css", valid |-> TRUE, h |-> h, s |-> s, l |-> l, a |-> a]
\* a string colord does not accept
NotAColour == [text |-> "bogus", valid |-> FALSE, h |-> 0, s |-> 0, l |-> 0, a |-> 0]
\* an optional colour argument that is absent, and one that is the empty string
NoColour == [text |-> Undefined, valid |-> FALSE, h |-> 0, s |-> 0, l |-> 0, a |-> 0]
EmptyColour == [text |-> "", valid |-> FALSE, h |-> 0, s |-> 0, l |-> 0, a |-> 0]

\* rgba(255, 0, 0, 0.5): red, hsl(0, 100%, 50%), half transparent
HalfRed == Css(0, 100, 50, 50)
\* rgba(255, 255, 255, 0.5): white, hsl(0, 0%, 100%), half transparent
HalfWhite == Css(0, 0, 100, 50)
\* rgb(255, 0, 0): red, opaque
Red == Css(0, 100, 50, 100)

\* the value parseColor returns for a string colord rejects
Null == [null |-> TRUE, hue |-> 0, sat |-> 0, bri |-> 0]
Native(hue, sat, bri) == [null |-> FALSE, hue |-> hue, sat |-> sat, bri |-> bri]

\* a conversion that takes the brightness from the alpha channel
parseColorFromAlpha(color) ==
  IF ~color.valid THEN Null
  ELSE Native(MathRound(color.h * 65535, 360), MathRound(color.s * 254, 100),
              Max(1, MathRound(color.a * 254, 100)))

\* a conversion whose brightness has no floor
parseColorNoFloor(color) ==
  IF ~color.valid THEN Null
  ELSE Native(MathRound(color.h * 65535, 360), MathRound(color.s * 254, 100),
              MathRound(color.l * 254, 100))

\* parseColor(color): null for what colord rejects, else hue, sat and bri
\* from the h, s and l of toHsl()
parseColor(color) ==
  IF ~color.valid THEN Null
  ELSE Native(MathRound(color.h * 65535, 360), MathRound(color.s * 254, 100),
              Max(1, MathRound(color.l * 254, 100)))

\* the requested brightness b of the brightness tools is a number in [0, 1]:
\* it is written k / BriSteps, k in 0..BriSteps
\* a tool that hands the client round(b * 254) as it is
ToolBriNoFloor(k, steps) == MathRound(k * 254, steps)

\* set_light_brightness, set_room_brightness:
\* `Math.max(1, Math.round(brightness * 254))`
ToolBri(k, steps) == Max(1, MathRound(k * 254, steps))

\* setBrightness, setRoomBrightness: `Math.min(254, Math.max(1, bri))`
ClampBri(bri) == Min(254, Max(1, bri))

\* setColorTemp, setRoomColorTemp: `Math.min(500, Math.max(153, ct))`
ClampCt(ct) == Min(500, Max(153, ct))

(***************************************************************************)
(* The methods of the client the tools call                                *)
(***************************************************************************)
\* a number as JSON.stringify and a template string write it
Num(n) == ToString(n)

getLights == Op("getLights", Undefined, Undefined, {})
getLight(id) == Op("getLight", id, Undefined, {})
getRooms == Op("getRooms", Undefined, Undefined, {})
getAllGroups == Op("getAllGroups", Undefined, Undefined, {})
getRoom(id) == Op("getRoom", id, Undefined, {})
getScenes == Op("getScenes", Undefined, Undefined, {})
setLightState(id, state) == Op("setLightState", id, Undefined, state)
turnLightOn(id) == setLightState(id, {<<"on", "true">>})
turnLightOff(id) == setLightState(id, {<<"on", "false">>})
setBrightness(id, bri) == setLightState(id, {<<"on", "true">>, <<"bri", Num(ClampBri(bri))>>})
setColorTemp(id, ct) == setLightState(id, {<<"on", "true">>, <<"ct", Num(ClampCt(ct))>>})
setRoomState(id, state) == Op("setRoomState", id, Undefined, state)
turnRoomOn(id) == setRoomState(id, {<<"on", "true">>})
turnRoomOff(id) == setRoomState(id, {<<"on", "false">>})
setRoomBrightness(id, bri) == setRoomState(id, {<<"on", "true">>, <<"bri", Num(ClampBri(bri))>>})
setRoomColorTemp(id, ct) == setRoomState(id, {<<"on", "true">>, <<"ct", Num(ClampCt(ct))>>})
activateScene(sceneId, groupId) == Op("activateScene", groupId, sceneId, {})

\* `/lights/${id}/state`
StatePath(id) == "/lights/" \o id \o "/state"

Req(method, path, hasBody, body) ==
  [method |-> method, path |-> path, hasBody |-> hasBody, body |-> body]

\* the request a method of the client submits when it is called
FirstRequest(o) ==
  CASE o.kind = "getLights" -> Req("GET", "/lights", FALSE, {})
    [] o.kind = "getLight" -> Req("GET", "/lights/" \o o.id, FALSE, {})
    [] o.kind \in {"getRooms", "getAllGroups"} -> Req("GET", "/groups", FALSE, {})
    [] o.kind = "getRoom" -> Req("GET", "/groups/" \o o.id, FALSE, {})
    [] o.kind = "getScenes" -> Req("GET", "/scenes", FALSE, {})
    [] o.kind = "setLightState" -> Req("PUT", StatePath(o.id), TRUE, o.state)
    [] o.kind = "setRoomState" -> Req("PUT", GroupActionPath(o.id), TRUE, o.state)
    [] o.kind = "activateScene" ->
         IF Truthy(o.id)
         THEN Req("PUT", GroupActionPath(o.id), TRUE, SceneBody(o.scene))
         ELSE Req("GET", "/scenes", FALSE, {})

\* the calls of request() a method makes at most
CallsOf(o) == IF o.kind = "activateScene" /\ ~Truthy(o.id) THEN 2 ELSE 1

\* a handler that calls the method on a client of its own, whose chain is new
InvokeOwnClient(o) ==
  /\ Len(calls) + Reserved + CallsOf(o) <= MaxCalls
  /\ ops' = Append(ops, o)
  /\ RequestUnchained(Len(ops) + 1, FirstRequest(o).method, FirstRequest(o).path,
                      FirstRequest(o).hasBody, FirstRequest(o).body, result)

\* a tool handler calls method o of the client
Invoke(o) ==
  LET r == FirstRequest(o) IN
  /\ Room(CallsOf(o))
  /\ ops' = Append(ops, o)
  /\ Request(Len(ops) + 1, r.method, r.path, r.hasBody, r.body, result)

\* what a method does with the document its call resolved with: getLights
\* and getLight read the state of each light (`d.state.on` throws when the
\* document has no state), getScenes the group of each scene
Mapped(kind, id, doc) ==
  CASE kind = "getLights" -> Resolved({[id |-> e[1], on |-> e[2]] : e \in doc})
    [] kind = "getLight" ->
         IF \E f \in doc : f[1] = "state"
         THEN Resolved({[id |-> id, on |-> f[2]] : f \in {g \in doc : g[1] = "state"}})
         ELSE Rejected(TypeErrorText)
    [] kind = "getScenes" -> Resolved(GetScenes(doc))
    [] OTHER -> Resolved(doc)

\* the promise of operation o, as its caller sees it: rejected with the
\* error of the call that rejected, resolved once its last call has resolved
OpSettlement(o) ==
  LET cs == {c \in 1..Len(calls) : calls[c].op = o}
      last == CHOOSE c \in cs : \A b \in cs : b <= c
  IN IF cs = {} THEN NoResult
     ELSE IF \E c \in cs : result[c].kind = "reject"
     THEN Rejected(result[CHOOSE c \in cs : result[c].kind = "reject"].err)
     ELSE IF \A c \in cs : result[c].kind = "resolve"
     THEN Mapped(ops[o].kind, ops[o].id, result[last].doc)
     ELSE NoResult

(***************************************************************************)
(* The tools: results, arguments and what each handler does when invoked   *)
(***************************************************************************)
NoToolResult == [isError |-> FALSE, text |-> Undefined, data |-> {}]

\* ok(text): { content: [{ type: 'text', text }] }
ok(text) == [isError |-> FALSE, text |-> text, data |-> {}]

\* a helper that reports a failure as a success
errAsOk(message) == [isError |-> FALSE, text |-> "Error: " \o message, data |-> {}]

\* err(error): { content: [{ type: 'text', text: `Error: ${error.message}` }], isError: true }
err(message) == [isError |-> TRUE, text |-> "Error: " \o message, data |-> {}]

\* json(data): ok(JSON.stringify(data, null, 2)); the text is kept as the data
json(data) == [isError |-> FALSE, text |-> "json", data |-> data]

NotConfiguredText == "Not configured. Set HUE_BRIDGE_IP and HUE_USERNAME environment variables, or use discover_bridges and create_auth_token tools."
notConfigured == ok(NotConfiguredText)

\* a test that is satisfied with the address alone
isConfiguredAddressOnly == Truthy(HUE_BRIDGE_IP)

\* isConfigured(): `HUE_BRIDGE_IP && HUE_USERNAME`
isConfigured == Truthy(HUE_BRIDGE_IP) /\ Truthy(HUE_USERNAME)

LightTools == {"list_lights", "get_light", "turn_light_on", "turn_light_off",
               "set_light_brightness", "set_light_color", "set_light_color_temp",
               "set_light_state"}
RoomTools == {"list_rooms", "list_groups", "get_room", "turn_room_on", "turn_room_off",
              "set_room_brightness", "set_room_color", "set_room_color_temp",
              "set_room_state"}
SceneTools == {"list_scenes", "activate_scene"}
GlobalTools == {"turn_all_lights_off", "turn_all_lights_on", "set_all_lights_color"}
SetupTools == {"discover_bridges", "create_auth_token", "test_connection"}
Tools == LightTools \cup RoomTools \cup SceneTools \cup GlobalTools \cup SetupTools

\* the arguments of an invocation; an optional number is << >> when absent
\* and <<n>> when given, brightness is the numerator k of k / BriSteps
DefaultArgs ==
  [lightId |-> "1", roomId |-> "1", brightness |-> 0, color |-> Red,
   on |-> Undefined, colorTemp |-> << >>, transitionTime |-> << >>,
   sceneId |-> "s1", groupId |-> Undefined, bridgeIp |-> "10.0.2.3"]

\* an optional number as a field of a state object
Opt(n) == IF n = << >> THEN Undefined ELSE Num(n[1])

\* `...native`, `...colorState`: the fields of a converted colour (none of null)
Spread(native) ==
  IF native.null THEN {}
  ELSE {<<"hue", Num(native.hue)>>, <<"sat", Num(native.sat)>>, <<"bri", Num(native.bri)>>}

\* what a handler does before it first awaits: it returns a result at once
\* (early), calls a method of the client (op) or sends a request of its own
Early(r) == [does |-> "return", res |-> r, op |-> Op("none", Undefined, Undefined, {})]
Call(o) == [does |-> "call", res |-> NoToolResult, op |-> o]
Direct == [does |-> "direct", res |-> NoToolResult, op |-> Op("none", Undefined, Undefined, {})]

InvalidColor(tool) ==
  IF tool \in {"set_light_state", "set_room_state"}
  THEN "Invalid color: \"bogus\""
  ELSE "Invalid color: \"bogus\". Use CSS colors"

\* the colour tools: `const native = parseColor(color); if (!native) return err(...)`
WithColor(tool, a, o) ==
  IF parseColor(a.color).null THEN Early(err(InvalidColor(tool))) ELSE Call(o)

\* a state tool that does not look at what parseColor returned
WithStateUnchecked(tool, a, o) == Call(o)

\* the state tools: `const colorState = color ? parseColor(color) : {};
\* if (color && !parseColor(color)) return err(...)`
ColorState(a) == IF Truthy(a.color.text) THEN Spread(parseColor(a.color)) ELSE {}
StateObject(a) ==
  {<<"on", a.on>>} \cup ColorState(a)
    \cup {<<"ct", Opt(a.colorTemp)>>, <<"transitiontime", Opt(a.transitionTime)>>}
WithState(tool, a, o) ==
  IF Truthy(a.color.text) /\ parseColor(a.color).null
  THEN Early(err(InvalidColor(tool))) ELSE Call(o)

\* the body of each handler after its guard
Body(tool, a) ==
  CASE tool = "list_lights" -> Call(getLights)
    [] tool = "get_light" -> Call(getLight(a.lightId))
    [] tool = "turn_light_on" -> Call(turnLightOn(a.lightId))
    [] tool = "turn_light_off" -> Call(turnLightOff(a.lightId))
    [] tool = "set_light_brightness" ->
         Call(setBrightness(a.lightId, ToolBri(a.brightness, BriSteps)))
    [] tool = "set_light_color" ->
         WithColor(tool, a, setLightState(a.lightId, {<<"on", "true">>} \cup Spread(parseColor(a.color))))
    [] tool = "set_light_color_temp" -> Call(setColorTemp(a.lightId, a.colorTemp[1]))
    [] tool = "set_light_state" -> WithState(tool, a, setLightState(a.lightId, StateObject(a)))
    [] tool = "list_rooms" -> Call(getRooms)
    [] tool = "list_groups" -> Call(getAllGroups)
    [] tool = "get_room" -> Call(getRoom(a.roomId))
    [] tool = "turn_room_on" -> Call(turnRoomOn(a.roomId))
    [] tool = "turn_room_off" -> Call(turnRoomOff(a.roomId))
    [] tool = "set_room_brightness" ->
         Call(setRoomBrightness(a.roomId, ToolBri(a.brightness, BriSteps)))
    [] tool = "set_room_color" ->
         WithColor(tool, a, setRoomState(a.roomId, {<<"on", "true">>} \cup Spread(parseColor(a.color))))
    [] tool = "set_room_color_temp" -> Call(setRoomColorTemp(a.roomId, a.colorTemp[1]))
    [] tool = "set_room_state" -> WithState(tool, a, setRoomState(a.roomId, StateObject(a)))
    [] tool = "list_scenes" -> Call(getScenes)
    [] tool = "activate_scene" -> Call(activateScene(a.sceneId, a.groupId))
    [] tool = "turn_all_lights_off" -> Call(setRoomState("0", {<<"on", "false">>}))
    [] tool = "turn_all_lights_on" -> Call(setRoomState("0", {<<"on", "true">>}))
    [] tool = "set_all_lights_color" ->
         WithColor(tool, a, setRoomState("0", {<<"on", "true">>} \cup Spread(parseColor(a.color))))
    [] tool = "test_connection" -> Call(getLights)
    [] tool \in {"discover_bridges", "create_auth_token"} -> Direct

\* a server whose handlers have no configuration guard
HandlerUnguarded(tool, a) == Body(tool, a)

\* the handler of a tool, up to its first await: the light, room, scene and
\* global tools start with `if (!isConfigured()) return notConfigured()`,
\* test_connection with its own test and text, the other two with nothing
Handler(tool, a) ==
  IF tool \in LightTools \cup RoomTools \cup SceneTools \cup GlobalTools
  THEN IF ~isConfigured THEN Early(notConfigured) ELSE Body(tool, a)
  ELSE IF tool = "test_connection"
  THEN IF ~Truthy(HUE_BRIDGE_IP) \/ ~Truthy(HUE_USERNAME)
       THEN Early(ok("Not configured!")) ELSE Body(tool, a)
  ELSE Body(tool, a)

(***************************************************************************)
(* The tools: what each handler returns once what it awaited has settled   *)
(***************************************************************************)
\* a parsed answer to a request a setup tool sends itself: whether it is an
\* array, its length, and of its first element the error (type and
\* description) and the success (username), each present or not
Ans(isArray, len, hasError, type, hasSuccess, username) ==
  [isArray |-> isArray, len |-> len, hasError |-> hasError, type |-> type,
   description |-> IF type = 101 THEN "link button not pressed" ELSE "invalid value",
   hasSuccess |-> hasSuccess, username |-> username]

LinkButtonText == "Link button not pressed! Press the button on top of your Hue bridge, run this tool again within 30 seconds"
TokenText(username) == "Auth token created successfully! Your new auth token: " \o username

\* `result[0]?.error`, `result[0]?.success?.username` of an array
FirstError(ans) == ans.isArray /\ ans.len > 0 /\ ans.hasError
FirstUsername(ans) ==
  IF ans.isArray /\ ans.len > 0 /\ ans.hasSuccess THEN ans.username ELSE Undefined

\* a mapping that treats the link-button error as any other error
PairingOutcomeNo101(ans) ==
  IF FirstError(ans) THEN err(ans.description)
  ELSE IF Truthy(FirstUsername(ans)) THEN ok(TokenText(FirstUsername(ans)))
  ELSE err("Unexpected response")

\* create_auth_token, after `await httpsRequest(...)`
PairingOutcome(ans) ==
  IF FirstError(ans)
  THEN IF ans.type = 101 THEN ok(LinkButtonText) ELSE err(ans.description)
  ELSE IF Truthy(FirstUsername(ans)) THEN ok(TokenText(FirstUsername(ans)))
  ELSE err("Unexpected response")

\* discover_bridges, after `await httpsRequest(...)`:
\* `if (!bridges || bridges.length === 0)`
DiscoveryOutcome(ans) ==
  IF ans.len = 0 THEN ok("No Hue bridges found on the network.")
  ELSE ok("Found " \o Num(ans.len) \o " Hue bridge(s)")

\* the `return ok(...)` or `return json(...)` after the await of each handler
Success(tool, a, d) ==
  CASE tool \in {"list_lights", "get_light", "list_rooms", "list_groups", "get_room",
                 "list_scenes"} -> json(d)
    [] tool = "create_auth_token" -> PairingOutcome(d)
    [] tool = "discover_bridges" -> DiscoveryOutcome(d)
    [] tool = "test_connection" -> ok("Connection successful! Found " \o Num(Cardinality(d)) \o " lights.")
    [] tool \in LightTools -> ok("Light " \o a.lightId \o ": " \o tool)
    [] tool \in RoomTools -> ok("Room " \o a.roomId \o ": " \o tool)
    [] tool = "activate_scene" -> ok("Scene " \o a.sceneId \o " activated")
    [] OTHER -> ok("All lights: " \o tool)

\* a handler whose catch swallows the failure
CompletedSwallows(tool, a, s) ==
  IF s.kind = "reject" THEN ok("done") ELSE Success(tool, a, s.doc)

\* `try { ... await ...; return ok(...) } catch (e) { return err(e) }`: the
\* result of a handler whose awaited promise settled as s
Completed(tool, a, s) ==
  IF s.kind = "reject" THEN err(s.err) ELSE Success(tool, a, s.doc)

\* the result invocation k has returned (NoToolResult while it is awaiting)
Returned(k) ==
  LET t == toolCalls[k] IN
  IF t.op = 0 THEN t.res
  ELSE IF OpSettlement(t.op).kind = "none" THEN NoToolResult
  ELSE Completed(t.tool, t.args, OpSettlement(t.op))

(***************************************************************************)
(* The bridge client: specification                                        *)
(***************************************************************************)
ClientInit ==
  /\ ops = << >>
  /\ calls = << >>
  /\ pending = 0
  /\ wire = << >>
  /\ result = << >>
  /\ crashed = FALSE

\* the event loop runs the queue and the bridge answers, fails or hangs
Progress ==
  \/ \E c \in 1..Len(calls) : StartCall(c)
  \/ \E c \in 1..Len(calls) : \E d \in Answers(calls[c].path) : ResponseEnd(c, d)
  \/ \E c \in 1..Len(calls) : ResponseBadJson(c)
  \/ \E c \in 1..Len(calls), e \in NetErrors : RequestError(c, e)
  \/ \E c \in 1..Len(calls) : Timeout(c)

\* callers read the lights and set room states
Next ==
  \/ GetLights
  \/ \E rc \in RoomCalls : SetRoomState(rc[1], rc[2])
  \/ Progress

\* a configured process that has handled no tool invocation
ToolInit ==
  /\ HUE_BRIDGE_IP = "10.0.2.3"
  /\ HUE_USERNAME = "token"
  /\ toolCalls = << >>
  /\ arg = NoArg
  /\ ret = NoRet

Init == ClientInit /\ SessionInit /\ ToolInit

Spec == Init /\ [][Next]_vars

\* callers read the lights and activate scenes
SceneNext ==
  \/ GetLights
  \/ \E sc \in SceneCalls : ActivateScene(sc[1], sc[2])
  \/ Progress

SceneSpec == Init /\ [][SceneNext]_vars

\* callers read the lights, nothing else
QueueNext ==
  \/ GetLights
  \/ Progress

QueueSpec == Init /\ [][QueueNext]_vars

\* clients of the /mcp endpoint send requests, transports close
SessionNext ==
  \/ \E sid \in SessionHeaders, init \in BOOLEAN : Post(sid, init)
  \/ \E sid \in SessionHeaders : Get(sid)
  \/ \E sid \in SessionHeaders : Delete(sid)
  \/ \E t \in 1..Len(tr) : TransportClose(t)

SessionSpec == Init /\ [][SessionNext]_vars

(***************************************************************************)
(* The tools: invocations                                                  *)
(***************************************************************************)
\* no answer has come
NoAnswer == Ans(FALSE, 0, FALSE, 0, FALSE, Undefined)

\* the record of one invocation: the method of the client it called (its
\* index in ops, 0 for none), the state of the request it sent itself and
\* the answer that request got, and the result it returned without the client
Invocation(tool, a, op, direct, res) ==
  [tool |-> tool, args |-> a, op |-> op, direct |-> direct, answer |-> NoAnswer,
   res |-> res]

\* a server that adopts the token it has just created
UsernameAfterAdopts(tool, res) ==
  IF tool = "create_auth_token" /\ ~res.isError /\ res.text # LinkButtonText
  THEN "newtoken" ELSE HUE_USERNAME

\* `const HUE_USERNAME = process.env.HUE_USERNAME || ''`: the constant keeps
\* the value it was given at start, whatever tool returned whatever result
UsernameAfter(tool, res) == HUE_USERNAME

\* the handler of a tool runs up to its first await
RunHandler(tool, a) ==
  LET h == Handler(tool, a) IN
  /\ ~crashed
  /\ CASE h.does = "return" ->
            /\ toolCalls' = Append(toolCalls, Invocation(tool, a, 0, "none", h.res))
            /\ UNCHANGED clientVars
       [] h.does = "call" ->
            /\ Invoke(h.op)
            /\ toolCalls' = Append(toolCalls, Invocation(tool, a, Len(ops) + 1, "none", NoToolResult))
            /\ UNCHANGED <<wire, crashed>>
       [] h.does = "direct" ->
            /\ toolCalls' = Append(toolCalls, Invocation(tool, a, 0, "open", NoToolResult))
            /\ UNCHANGED clientVars
  /\ UNCHANGED <<HUE_BRIDGE_IP, HUE_USERNAME, arg, ret>>

\* the server calls the handler of a tool
InvokeTool(tool, a) ==
  /\ Len(toolCalls) < MaxTools
  /\ RunHandler(tool, a)
  /\ UNCHANGED sessionVars

\* httpsRequest: res 'end' with a body that parses; the handler goes on
DirectEnd(k, ans) ==
  LET t == toolCalls[k]
      r == Completed(t.tool, t.args, Resolved(ans))
  IN /\ ~crashed
     /\ t.direct = "open"
     /\ toolCalls' = [toolCalls EXCEPT ![k].direct = "done", ![k].answer = ans, ![k].res = r]
     /\ HUE_USERNAME' = UsernameAfter(t.tool, r)
     /\ UNCHANGED <<HUE_BRIDGE_IP, arg, ret, clientVars, sessionVars>>

\* httpsRequest: req 'error', or the 10 s timer: the promise rejects with e
DirectFail(k, e) ==
  LET t == toolCalls[k]
      r == Completed(t.tool, t.args, Rejected(e))
  IN /\ ~crashed
     /\ t.direct = "open"
     /\ toolCalls' = [toolCalls EXCEPT ![k].direct = "failed", ![k].res = r]
     /\ HUE_USERNAME' = UsernameAfter(t.tool, r)
     /\ UNCHANGED <<HUE_BRIDGE_IP, arg, ret, clientVars, sessionVars>>

\* httpsRequest: res 'end' with a body that is not JSON: JSON.parse throws
\* inside the listener
DirectBadJson(k) ==
  /\ ~crashed
  /\ toolCalls[k].direct = "open"
  /\ toolCalls' = [toolCalls EXCEPT ![k].direct = "badjson"]
  /\ crashed' = TRUE
  /\ UNCHANGED <<ops, calls, pending, wire, result>>
  /\ UNCHANGED <<HUE_BRIDGE_IP, HUE_USERNAME, arg, ret, sessionVars>>

\* the arguments the invocations of a tool are drawn from
StateArgs ==
  {[DefaultArgs EXCEPT !.on = on, !.color = c] :
     on \in {Undefined, "true"}, c \in {NoColour, EmptyColour, HalfRed, NotAColour}}
ToolArgs(tool) ==
  CASE tool \in {"set_light_brightness", "set_room_brightness"} ->
         {[DefaultArgs EXCEPT !.brightness = k] : k \in {0, BriSteps}}
    [] tool \in {"set_light_color", "set_room_color", "set_all_lights_color"} ->
         {[DefaultArgs EXCEPT !.color = c] : c \in {Red, NotAColour}}
    [] tool \in {"set_light_color_temp", "set_room_color_temp"} ->
         {[DefaultArgs EXCEPT !.colorTemp = <<300>>]}
    [] tool \in {"set_light_state", "set_room_state"} -> StateArgs
    [] tool = "activate_scene" ->
         {[DefaultArgs EXCEPT !.groupId = g] : g \in {Undefined, "2"}}
    [] OTHER -> {DefaultArgs}

\* the parsed answers of the discovery service and of the bridge's /api: for
\* the latter a value that is no array (with or without an error field), the
\* empty array, and arrays whose first element has an error (of type 101 or
\* another) or none, and a success (with a username, absent, empty or set)
\* or none
DirectAnswers(tool) ==
  IF tool = "discover_bridges"
  THEN {Ans(TRUE, n, FALSE, 0, FALSE, Undefined) : n \in {0, 1}}
  ELSE {Ans(FALSE, 0, FALSE, 0, FALSE, Undefined), Ans(FALSE, 0, TRUE, 101, FALSE, Undefined),
        Ans(TRUE, 0, FALSE, 0, FALSE, Undefined)}
         \cup {Ans(TRUE, 1, e[1], e[2], s[1], s[2]) :
                 e \in {<<FALSE, 0>>, <<TRUE, 101>>, <<TRUE, 7>>},
                 s \in {<<FALSE, Undefined>>, <<TRUE, Undefined>>, <<TRUE, "">>,
                        <<TRUE, "newtoken">>}}

\* the process starts with the address and the credential of its
\* environment, each set or empty
ToolSpecInit ==
  /\ ClientInit
  /\ SessionInit
  /\ HUE_BRIDGE_IP \in {"", "10.0.2.3"}
  /\ HUE_USERNAME \in {"", "token"}
  /\ toolCalls = << >>
  /\ arg = NoArg
  /\ ret = NoRet

\* tools are invoked, the bridge and the discovery service answer or fail
ToolNext ==
  \/ \E tool \in Tools : \E a \in ToolArgs(tool) : InvokeTool(tool, a)
  \/ \E k \in 1..Len(toolCalls) : \E ans \in DirectAnswers(toolCalls[k].tool) : DirectEnd(k, ans)
  \/ \E k \in 1..Len(toolCalls) : \E e \in NetErrors \cup {TimeoutError} : DirectFail(k, e)
  \/ \E k \in 1..Len(toolCalls) : DirectBadJson(k)
  \/ Progress

ToolSpec == ToolSpecInit /\ [][ToolNext]_vars

(***************************************************************************)
(* Sessions that invoke tools                                              *)
(***************************************************************************)
\* a tools/call request arrives by POST with the identifier of a session in
\* the table: the handler forwards it to the session's transport, which
\* hands it to the one `server`, which calls the handler of the tool
SessionToolCall(sid, tool, a) ==
  /\ Len(events) < MaxEvents
  /\ Known(sid)
  /\ events' = Append(events, Forwarded("POST", sid, FALSE, transports[sid], NoTransport))
  /\ RunHandler(tool, a)
  /\ UNCHANGED <<transports, tr, issued>>

\* the tools the sessions invoke: one that calls the client, and the two
\* that send a request of their own
SessionTools == {"turn_light_on", "create_auth_token", "discover_bridges"}

\* the answers the pairing and the discovery get here
SessionAnswers(tool) ==
  IF tool = "discover_bridges" THEN {Ans(TRUE, 1, FALSE, 0, FALSE, Undefined)}
  ELSE {Ans(TRUE, 1, FALSE, 0, TRUE, "newtoken")}

\* clients open sessions and invoke tools on them; the bridge and the
\* discovery service answer or fail
SharedNext ==
  \/ Post(Undefined, TRUE)
  \/ \E sid \in UUIDs, tool \in SessionTools : SessionToolCall(sid, tool, DefaultArgs)
  \/ \E k \in 1..Len(toolCalls) : \E ans \in SessionAnswers(toolCalls[k].tool) : DirectEnd(k, ans)
  \/ \E k \in 1..Len(toolCalls) : DirectFail(k, TimeoutError)
  \/ Progress

SharedSpec == Init /\ [][SharedNext]_vars


(***************************************************************************)
(* The conversions, applied to one input each                              *)
(***************************************************************************)
\* the colour expressions: every hue colord can return, with saturations,
\* lightnesses and alpha channels at and next to the ends of their ranges,
\* and the strings colord rejects
ColourInputs ==
  {Css(h, s, l, a) : h \in 0..360, s \in {0, 1, 50, 99, 100}, l \in {0, 1, 50, 99, 100},
                     a \in {0, 50, 100}}
    \cup {NotAColour, EmptyColour}

\* the arguments of set_light_state and set_room_state: each optional
\* argument absent or given
WideStateArgs ==
  {[DefaultArgs EXCEPT !.on = on, !.color = c, !.colorTemp = ct, !.transitionTime = tt] :
     on \in {Undefined, "true", "false"}, c \in {NoColour, EmptyColour, HalfRed, HalfWhite},
     ct \in {<< >>, <<153>>, <<500>>}, tt \in {<< >>, <<0>>, <<10>>}}

BrightnessTools == {"set_light_brightness", "set_room_brightness"}
StateTools == {"set_light_state", "set_room_state"}

ConvInputs ==
  {[fn |-> "parseColor", a |-> [DefaultArgs EXCEPT !.color = c]] : c \in ColourInputs}
    \cup {[fn |-> t, a |-> [DefaultArgs EXCEPT !.brightness = k]] :
            t \in BrightnessTools, k \in 0..BriSteps}
    \cup {[fn |-> t, a |-> a] : t \in StateTools, a \in WideStateArgs}

\* the body of the request a handler makes the client send:
\* `if (body) req.write(JSON.stringify(body))`
BodySent(h) ==
  IF h.does = "call" /\ FirstRequest(h.op).hasBody
  THEN JSONstringify(FirstRequest(h.op).body) ELSE {}

\* parseColor(color) is called
ApplyParseColor ==
  /\ arg.fn = "parseColor"
  /\ ret = NoRet
  /\ ret' = [kind |-> "colour", native |-> parseColor(arg.a.color)]
  /\ UNCHANGED <<HUE_BRIDGE_IP, HUE_USERNAME, toolCalls, arg, clientVars, sessionVars>>

\* a brightness tool is invoked: the value it hands the client, the value
\* the client clamps it to, and the body of the PUT
ApplyBrightness ==
  /\ arg.fn \in BrightnessTools
  /\ ret = NoRet
  /\ ret' = [kind |-> "brightness",
             bri |-> ToolBri(arg.a.brightness, BriSteps),
             clamped |-> ClampBri(ToolBri(arg.a.brightness, BriSteps)),
             body |-> BodySent(Handler(arg.fn, arg.a))]
  /\ UNCHANGED <<HUE_BRIDGE_IP, HUE_USERNAME, toolCalls, arg, clientVars, sessionVars>>

\* set_light_state or set_room_state is invoked: what the handler does and
\* the body of the PUT
ApplyState ==
  /\ arg.fn \in StateTools
  /\ ret = NoRet
  /\ ret' = [kind |-> "state", does |-> Handler(arg.fn, arg.a).does,
             body |-> BodySent(Handler(arg.fn, arg.a))]
  /\ UNCHANGED <<HUE_BRIDGE_IP, HUE_USERNAME, toolCalls, arg, clientVars, sessionVars>>

ConvInit ==
  /\ ClientInit
  /\ SessionInit
  /\ HUE_BRIDGE_IP = "10.0.2.3"
  /\ HUE_USERNAME = "token"
  /\ toolCalls = << >>
  /\ arg \in ConvInputs
  /\ ret = NoRet

ConvNext == ApplyParseColor \/ ApplyBrightness \/ ApplyState

ConvSpec == ConvInit /\ [][ConvNext]_vars

(***************************************************************************)
(* Properties of the bridge client                                         *)
(***************************************************************************)
Failed(w) == w.end \in {"error", "destroyed"}
CallIds == 1..Len(calls)

\* C1: at most one HTTP exchange with the bridge is in flight at any moment:
\* an exchange has ended before the next one starts, whatever calls were
\* submitted meanwhile and whether the exchange was a retry or timed out.
C1_NoOverlap ==
  /\ Cardinality({k \in 1..Len(wire) : wire[k].end = "open"}) <= 1
  /\ \A j, k \in 1..Len(wire) : j < k => wire[j].end # "open"

\* three calls were submitted while the first was still in flight, on its
\* retry after a timeout
C1_Witness ==
  /\ Len(calls) = 3
  /\ Len(wire) = 2
  /\ wire[1].call = 1 /\ wire[1].end = "destroyed"
  /\ wire[2].call = 1 /\ wire[2].end = "open"

\* C2: calls begin their network exchange in submission order: a call's
\* first attempt starts only after every call submitted before it has
\* settled, resolved or rejected.
C2_Fifo ==
  /\ \A c \in CallIds : AttemptsOf(c) # << >> => \A b \in 1..(c - 1) : Settled(b)
  /\ \A j, k \in 1..Len(wire) : j < k => wire[j].call <= wire[k].call

\* the second call is in flight after the first, submitted before it, was rejected
C2_Witness ==
  /\ Len(calls) >= 2
  /\ result[1].kind = "reject"
  /\ InFlight(2)

\* C3: a call resolves with the response of its first successful attempt,
\* which is one of its first three attempts, and rejects, with the error of
\* the third attempt, exactly when its three attempts failed.
C3_Result ==
  \A c \in CallIds :
    LET a == AttemptsOf(c)
        n == Len(a) IN
    /\ result[c].kind = "resolve" =>
         /\ n \in 1..3
         /\ a[n].end = "ok" /\ result[c].doc = a[n].doc
         /\ \A k \in 1..(n - 1) : Failed(a[k])
    /\ result[c].kind = "reject" =>
         /\ n = 3
         /\ \A k \in 1..3 : Failed(a[k])
         /\ result[c].err = a[3].err
    /\ (\E k \in 1..n : a[k].end = "ok") => result[c].kind = "resolve"
    /\ (n >= 3 /\ \A k \in 1..3 : Failed(a[k])) => result[c].kind = "reject"

\* a call failed twice, by a timeout and by a connection error, and its
\* third attempt succeeded: the caller has the response
C3_Witness ==
  \E c \in CallIds :
    LET a == AttemptsOf(c) IN
    /\ Len(a) = 3
    /\ a[1].end = "destroyed" /\ a[2].end = "error" /\ a[3].end = "ok"
    /\ result[c] = Resolved(a[3].doc)

\* C4: an attempt that hangs is ended by the timeout: its request is
\* destroyed and it rejects with 'timeout'; it counts as one of the call's
\* three attempts, so the next attempt follows unless it was the third, and
\* a call whose three attempts hang rejects with the timeout error.
C4_TimeoutCounts ==
  \A c \in CallIds :
    LET a == AttemptsOf(c) IN
    /\ Len(a) <= 3
    /\ \A k \in 1..Len(a) :
         /\ a[k].i = k - 1
         /\ a[k].end = "destroyed" =>
              /\ a[k].err = "timeout"
              /\ k < 3 => Len(a) > k
              /\ k = 3 => result[c] = Rejected("timeout")

\* the three attempts of a call hung and the call rejected with 'timeout'
C4_Witness ==
  \E c \in CallIds :
    LET a == AttemptsOf(c) IN
    /\ Len(a) = 3
    /\ \A k \in 1..3 : a[k].end = "destroyed"
    /\ result[c] = Rejected("timeout")

\* the calls and the exchanges made for operation o
CallsOfOp(o) == {c \in CallIds : calls[c].op = o}
ExchangesOfOp(o) == {k \in 1..Len(wire) : calls[wire[k].call].op = o}
OpsOfKind(kind) == {o \in 1..Len(ops) : ops[o].kind = kind}

\* the group an activateScene operation has to address. A groupId that is
\* the empty string counts as not given. Without a groupId the group is the
\* one the answer to the operation's GET /scenes records for the scene, and
\* "0" when the scene is not listed or has no group.
ListedGroups(o) ==
  {s[2] : s \in {x \in UNION {result[c].doc : c \in {b \in CallsOfOp(o) : calls[b].method = "GET"}} :
                   x[1] = ops[o].scene /\ x[2] \notin {Undefined, ""}}}
TargetGroups(o) ==
  IF ops[o].id \notin {Undefined, ""} THEN {ops[o].id}
  ELSE IF ListedGroups(o) # {} THEN ListedGroups(o)
  ELSE {"0"}

\* C5: every scene-select PUT of an activateScene operation goes to one
\* group: the groupId when given, otherwise the scene's recorded group,
\* otherwise "0"; its body selects the scene; and nothing else is sent but
\* the GET /scenes of the lookup, before it.
C5_SceneTarget ==
  \A o \in OpsOfKind("activateScene") :
    /\ Cardinality(TargetGroups(o)) = 1
    /\ \A k \in ExchangesOfOp(o) :
         IF wire[k].method = "PUT"
         THEN /\ \E g \in TargetGroups(o) : wire[k].path = "/groups/" \o g \o "/action"
              /\ wire[k].body = {<<"scene", ops[o].scene>>}
         ELSE /\ wire[k].method = "GET" /\ wire[k].path = "/scenes"
              /\ ops[o].id \in {Undefined, ""}
    /\ Cardinality({wire[k].path : k \in {x \in ExchangesOfOp(o) : wire[x].method = "PUT"}}) <= 1

\* an activation whose groupId is the empty string looked the scene up,
\* found it in group "1" and had its PUT to /groups/1/action answered
C5_Witness ==
  \E o \in OpsOfKind("activateScene") :
    /\ ops[o].id = "" /\ ops[o].scene = "s1"
    /\ \E k \in ExchangesOfOp(o) :
         wire[k].method = "PUT" /\ wire[k].path = "/groups/1/action" /\ wire[k].end = "ok"

\* the exchanges of a setRoomState operation are PUTs to the action path of
\* its group with the given state as body
RoomExchangesRight(o) ==
  \A k \in ExchangesOfOp(o) :
    /\ wire[k].method = "PUT"
    /\ wire[k].path = "/groups/" \o ops[o].id \o "/action"
    /\ wire[k].hasBody /\ wire[k].body = ops[o].state

\* C6, as claimed: a setRoomState call issues exactly one PUT to
\* /groups/{id}/action with the given state as body and no other request.
C6_ExactlyOnePut ==
  \A o \in OpsOfKind("setRoomState") :
    /\ RoomExchangesRight(o)
    /\ Cardinality(ExchangesOfOp(o)) <= 1
    /\ (\E c \in CallsOfOp(o) : Settled(c)) => Cardinality(ExchangesOfOp(o)) = 1

\* C6, amended: a setRoomState call places exactly one call on the queue, a
\* PUT to /groups/{id}/action with the given state as body; that call makes
\* one exchange per attempt, between one and three once it has settled, one
\* more than the attempts that failed, each the same PUT, and no other request.
C6_OnePutPerAttempt ==
  \A o \in OpsOfKind("setRoomState") :
    /\ Cardinality(CallsOfOp(o)) = 1
    /\ \A c \in CallsOfOp(o) :
         /\ calls[c].method = "PUT" /\ calls[c].body = ops[o].state
         /\ calls[c].path = "/groups/" \o ops[o].id \o "/action"
         /\ Settled(c) =>
              /\ Cardinality(ExchangesOfOp(o)) \in 1..3
              /\ Cardinality(ExchangesOfOp(o)) =
                   Cardinality({k \in ExchangesOfOp(o) : Failed(wire[k])})
                   + (IF result[c].kind = "resolve" THEN 1 ELSE 0)
    /\ RoomExchangesRight(o)

\* setRoomState("0", {on: false}) resolved after one failed attempt: two
\* PUTs to /groups/0/action with body {"on": false} went out
C6_Witness ==
  \E o \in OpsOfKind("setRoomState") :
    /\ ops[o].id = "0" /\ ops[o].state = {<<"on", "false">>}
    /\ \E c \in CallsOfOp(o) : result[c].kind = "resolve"
    /\ Cardinality(ExchangesOfOp(o)) = 2
    /\ \A k \in ExchangesOfOp(o) :
         wire[k].method = "PUT" /\ wire[k].path = "/groups/0/action"
         /\ wire[k].body = {<<"on", "false">>}

(***************************************************************************)
(* Properties of the /mcp endpoint                                         *)
(***************************************************************************)
NoSessionId == {Undefined, ""}
Verbs == {"POST", "GET", "DELETE"}

\* this step answers a request (or records a close): the event it adds
AddsEvent == Len(events') = Len(events) + 1
NewEvent == events'[Len(events')]

\* a handshake: a POST without session identifier whose body is an initialize request
HandshakeEvent(e) == e.verb = "POST" /\ e.sid \in NoSessionId /\ e.init

\* C7: a handshake creates exactly one new session: one identifier that was
\* not in the table, and one new table entry, mapping that identifier to
\* the transport created for this request; the other entries stay.
C7_HandshakeCreatesOne ==
  [][(AddsEvent /\ HandshakeEvent(NewEvent)) =>
       /\ Len(tr') = Len(tr) + 1
       /\ NewEvent.made = Len(tr') /\ NewEvent.to = Len(tr')
       /\ \E u \in UUIDs :
            /\ u \notin DOMAIN transports
            /\ tr'[Len(tr')].sessionId = u
            /\ DOMAIN transports' = DOMAIN transports \cup {u}
            /\ transports'[u] = Len(tr')
       /\ \A x \in DOMAIN transports :
            transports'[x] = transports[x] /\ transports[x] # Len(tr')
       /\ Cardinality(DOMAIN transports') = Cardinality(DOMAIN transports) + 1]_vars

\* a second handshake has just added a second session beside the first
C7_Witness ==
  /\ Len(events) >= 2
  /\ HandshakeEvent(events[Len(events)])
  /\ Cardinality(DOMAIN transports) = 2
  /\ \A x, y \in DOMAIN transports : x # y => transports[x] # transports[y]

ClosesSession(j, s) ==
  /\ events[j].sid = s
  /\ events[j].to # NoTransport
  /\ events[j].verb \in {"DELETE", "close"}

\* C10: once the transport of a session has closed, the session's entry is
\* not in the table, in that state and ever after, and every later request
\* with its identifier is rejected without reaching a transport.
C10_ClosedStaysClosed ==
  /\ \A t \in 1..Len(tr) :
       tr[t].closed =>
         /\ tr[t].sessionId \notin DOMAIN transports
         /\ \A x \in DOMAIN transports : transports[x] # t
  /\ \A j, k \in 1..Len(events) :
       (j < k /\ ClosesSession(j, events[k].sid) /\ events[k].verb \in Verbs) =>
         events[k].status = 400 /\ events[k].to = NoTransport /\ events[k].made = NoTransport
  /\ \A j \in 1..Len(events) :
       (events[j].to # NoTransport /\ events[j].verb \in {"DELETE", "close"}) =>
         tr[events[j].to].closed

\* a session was created, ended by DELETE, and a later POST with its
\* identifier was rejected
C10_Witness ==
  \E i, j, k \in 1..Len(events) :
    /\ i < j /\ j < k
    /\ HandshakeEvent(events[i]) /\ events[i].made # NoTransport
    /\ events[j].verb = "DELETE" /\ events[j].to = events[i].made
    /\ events[k].verb = "POST" /\ events[k].sid = events[j].sid /\ events[k].status = 400

(***************************************************************************)
(* Properties of the tools                                                 *)
(***************************************************************************)
ToolIds == 1..Len(toolCalls)
GuardedTools == LightTools \cup RoomTools \cup SceneTools \cup GlobalTools

\* C11: when the bridge address or the credential is empty, every light,
\* room, scene and global tool returns the 'Not configured' result, without
\* the error flag, and calls no method of the client, so that no request
\* reaches the bridge; discover_bridges and create_auth_token are not
\* stopped by the guard: they send their request.
C11_NotConfigured ==
  (HUE_BRIDGE_IP = "" \/ HUE_USERNAME = "") =>
    /\ \A k \in ToolIds :
         toolCalls[k].tool \in GuardedTools =>
           /\ Returned(k).text = NotConfiguredText
           /\ ~Returned(k).isError
           /\ toolCalls[k].op = 0
           /\ toolCalls[k].direct = "none"
    /\ \A k \in ToolIds :
         toolCalls[k].tool \in {"discover_bridges", "create_auth_token"} =>
           /\ toolCalls[k].direct # "none"
           /\ Returned(k).text # NotConfiguredText
    /\ ops = << >>
    /\ calls = << >>
    /\ wire = << >>

\* the address is set and the credential is empty: set_room_state was
\* invoked and answered 'Not configured'
C11_Witness ==
  /\ HUE_BRIDGE_IP # ""
  /\ HUE_USERNAME = ""
  /\ \E k \in ToolIds :
       /\ toolCalls[k].tool = "set_room_state"
       /\ Returned(k) = notConfigured

\* C12: for every tool, a failure of what the handler awaits (the client's
\* call rejected after its last attempt, a method of the client threw, the
\* handler's own request failed) is returned as a result with isError true
\* and the text 'Error: ' followed by the message of the exception; a handler
\* whose awaited promise has settled has returned a result.
C12_FailureIsErrorResult ==
  \A k \in ToolIds :
    LET t == toolCalls[k] IN
    /\ (t.op # 0 /\ OpSettlement(t.op).kind = "reject") =>
         /\ Returned(k).isError
         /\ Returned(k).text = "Error: " \o OpSettlement(t.op).err
    /\ (t.op # 0 /\ OpSettlement(t.op).kind # "none") => Returned(k).text # Undefined
    /\ t.direct = "failed" =>
         /\ Returned(k).isError
         /\ Returned(k).text \in {"Error: " \o e : e \in NetErrors \cup {TimeoutError}}

\* turn_light_on failed after three attempts, the last one a timeout
C12_Witness ==
  \E k \in ToolIds :
    /\ toolCalls[k].tool = "turn_light_on"
    /\ Len(wire) = 3
    /\ wire[3].end = "destroyed"
    /\ Returned(k) = err(TimeoutError)

\* C13: create_auth_token maps the answer of the bridge to exactly one
\* outcome: an error of type 101 gives a result without the error flag that
\* tells the user to press the link button; any other error gives an error
\* result with the description of the error; failing these, a success with
\* a username gives a result without the error flag that carries the token;
\* any other answer gives the error result 'Unexpected response'.
C13_PairingOutcome ==
  \A k \in ToolIds :
    LET t == toolCalls[k]
        a == t.answer
        first == a.isArray /\ a.len > 0
        r == Returned(k)
    IN (t.tool = "create_auth_token" /\ t.direct = "done") =>
         IF first /\ a.hasError /\ a.type = 101
         THEN ~r.isError /\ r.text = LinkButtonText
         ELSE IF first /\ a.hasError
         THEN r.isError /\ r.text = "Error: " \o a.description
         ELSE IF first /\ a.hasSuccess /\ a.username \notin {Undefined, ""}
         THEN ~r.isError /\ r.text = TokenText(a.username)
         ELSE r.isError /\ r.text = "Error: Unexpected response"

\* the bridge answered create_auth_token with the link-button error
C13_Witness ==
  \E k \in ToolIds :
    /\ toolCalls[k].tool = "create_auth_token"
    /\ toolCalls[k].direct = "done"
    /\ toolCalls[k].answer = Ans(TRUE, 1, TRUE, 101, FALSE, Undefined)
    /\ Returned(k) = ok(LinkButtonText)

\* C18: the bridge address and the credential are fixed at process start:
\* no step of any tool changes them, so that after create_auth_token has
\* succeeded the server is configured exactly if it was before.
C18_ConfigurationFixed ==
  [][HUE_BRIDGE_IP' = HUE_BRIDGE_IP /\ HUE_USERNAME' = HUE_USERNAME]_vars

\* create_auth_token returned a token to a server without a credential,
\* which still has none
C18_Witness ==
  /\ HUE_USERNAME = ""
  /\ \E k \in ToolIds :
       /\ toolCalls[k].tool = "create_auth_token"
       /\ toolCalls[k].direct = "done"
       /\ Returned(k) = ok(TokenText("newtoken"))

(***************************************************************************)
(* Properties of the conversions                                           *)
(***************************************************************************)
\* C14: for every colour expression colord accepts, parseColor returns hue
\* in 0..65535, sat in 0..254 and bri in 1..254, hue being h/360 * 65535
\* and sat being s/100 * 254 rounded to the nearest integer, a half going
\* up; for every expression colord rejects it returns null.
C14_ParseColorRanges ==
  (arg.fn = "parseColor" /\ ret.kind = "colour") =>
    LET c == arg.a.color
        n == ret.native
    IN IF c.valid
       THEN /\ ~n.null
            /\ n.hue \in 0..65535
            /\ n.sat \in 0..254
            /\ n.bri \in 1..254
            /\ 360 * n.hue - 65535 * c.h > -180
            /\ 360 * n.hue - 65535 * c.h <= 180
            /\ 100 * n.sat - 254 * c.s > -50
            /\ 100 * n.sat - 254 * c.s <= 50
       ELSE n = Null

\* a black of full hue and saturation, hsl(360, 100%, 0%), was converted:
\* hue and sat are at the top of their range and bri is at its floor
C14_Witness ==
  /\ arg.fn = "parseColor"
  /\ arg.a.color = Css(360, 100, 0, 100)
  /\ ret.kind = "colour"
  /\ ret.native = Native(65535, 254, 1)

C16_BriFromAlpha ==
  (arg.fn = "parseColor" /\ ret.kind = "colour" /\ arg.a.color.valid) =>
    LET D == 100 * ret.native.bri - 254 * arg.a.color.a IN
    \/ D > -50 /\ D <= 50
    \/ ret.native.bri = 1 /\ 254 * arg.a.color.a < 50

\* C16: the bri of the conversion is max(1, round(l/100 * 254)), l being the
\* lightness of the colour; the alpha channel has no part in it: colours
\* that differ in alpha alone convert alike. rgba(255, 0, 0, 0.5) converts
\* to {hue: 0, sat: 254, bri: 127}, the lightness of red being 50%.
C16_BriFromLightness ==
  (arg.fn = "parseColor" /\ ret.kind = "colour" /\ arg.a.color.valid) =>
    LET c == arg.a.color
        D == 100 * ret.native.bri - 254 * c.l
    IN /\ \/ D > -50 /\ D <= 50
          \/ ret.native.bri = 1 /\ 254 * c.l < 50
       /\ \A a \in {0, 50, 100} : parseColor(Css(c.h, c.s, c.l, a)) = ret.native
       /\ c = HalfRed => ret.native = Native(0, 254, 127)

\* rgba(255, 255, 255, 0.5) was converted: bri is 254, from its lightness
C16_Witness ==
  /\ arg.fn = "parseColor"
  /\ arg.a.color = HalfWhite
  /\ ret.kind = "colour"
  /\ ret.native.bri = 254

\* the names of the fields of a body
Fields(body) == {f[1] : f \in body}

\* C17: the body of the PUT of set_light_state and set_room_state holds only
\* what the caller supplied: on only if on was given, ct only if the colour
\* temperature was given, transitiontime only if the transition time was
\* given, and hue, sat and bri only if a colour was given; no field of the
\* body is undefined.
C17_OnlySuppliedFields ==
  (arg.fn \in StateTools /\ ret.kind = "state") =>
    LET a == arg.a IN
    /\ "on" \in Fields(ret.body) => a.on # Undefined
    /\ "ct" \in Fields(ret.body) => a.colorTemp # << >>
    /\ "transitiontime" \in Fields(ret.body) => a.transitionTime # << >>
    /\ Fields(ret.body) \cap {"hue", "sat", "bri"} # {} => a.color.text \notin {Undefined, ""}
    /\ Fields(ret.body) \subseteq {"on", "ct", "transitiontime", "hue", "sat", "bri"}
    /\ \A f \in ret.body : f[2] # Undefined

\* set_room_state was invoked with a transition time alone: the body of
\* its PUT is {transitiontime: 10}
C17_Witness ==
  /\ arg.fn = "set_room_state"
  /\ ret.kind = "state"
  /\ ret.does = "call"
  /\ arg.a.on = Undefined
  /\ ret.body = {<<"transitiontime", "10">>}

(***************************************************************************)
(* Properties of the attempts of a call                                    *)
(***************************************************************************)
\* C19: one call makes at most three attempts: there is no fourth; every
\* attempt but the last one made has failed, so that no attempt follows one
\* that succeeded and none starts before the one before it has failed; and
\* a call that has settled has no attempt in flight.
C19_AtMostThreeAttempts ==
  \A c \in CallIds :
    LET a == AttemptsOf(c) IN
    /\ Len(a) <= 3
    /\ \A k \in 1..(Len(a) - 1) : Failed(a[k])
    /\ \A j, k \in 1..Len(a) : (j < k) => a[j].end \notin {"ok", "open"}
    /\ Settled(c) => ~InFlight(c)

\* the first call failed three times and rejected without a fourth
\* attempt: the next exchange on the wire is the first attempt of the second
\* call, which succeeded and was followed by no other
C19_Witness ==
  /\ Len(calls) >= 2
  /\ Len(AttemptsOf(1)) = 3
  /\ result[1].kind = "reject"
  /\ Len(AttemptsOf(2)) = 1
  /\ AttemptsOf(2)[1].end = "ok"
  /\ result[2].kind = "resolve"

\* C20, in the form a finite run refutes: every call settles, whatever
\* each exchange does (it answers, fails, hangs and is timed out, or answers
\* with a body that is not JSON), and the process keeps running: the process
\* has not stopped, and a call whose exchange has ended has settled or has
\* its next attempt in flight, so that no call is left that can never settle
\* and none behind it that can never start.
C20_EveryCallSettles ==
  /\ ~crashed
  /\ \A c \in CallIds : (AttemptsOf(c) # << >> /\ ~InFlight(c)) => Settled(c)

(***************************************************************************)
(* Properties of the queue: failures, retries and the callers              *)
(***************************************************************************)
\* the last exchange of call c
LastAttempt(c) == AttemptsOf(c)[Len(AttemptsOf(c))]

\* C21: the failure of a call reaches that call alone: a call queued behind
\* a call that rejected after its three attempts makes attempts of its own,
\* and when it settles it resolves with the response of its own last
\* exchange or rejects with the error of its own last exchange, whatever
\* the error of the call before it was.
C21_FailureStaysWithItsCall ==
  \A c \in CallIds :
    (calls[c].prev # 0 /\ Settled(c)) =>
      /\ Settled(calls[c].prev)
      /\ AttemptsOf(c) # << >>
      /\ LastAttempt(c).call = c
      /\ result[c].kind = "resolve" =>
           LastAttempt(c).end = "ok" /\ result[c].doc = LastAttempt(c).doc
      /\ result[c].kind = "reject" =>
           Failed(LastAttempt(c)) /\ result[c].err = LastAttempt(c).err

\* the first call timed out three times and rejected with 'timeout'; the
\* call queued behind it, submitted while the first was still running, made
\* one attempt and resolved with the bridge's answer to it
C21_Witness ==
  /\ Len(calls) >= 2
  /\ result[1] = Rejected(TimeoutError)
  /\ calls[2].prev = 1
  /\ \A k \in 1..3 : wire[k].call = 1 /\ wire[k].end = "destroyed"
  /\ Len(AttemptsOf(2)) = 1
  /\ result[2].kind = "resolve" /\ result[2].doc = AttemptsOf(2)[1].doc

\* the document is an error object of the bridge
IsBridgeError(doc) == \E f \in doc : f[1] = "error"

\* C22: when the bridge answers the PUT of a state update (setLightState or
\* setRoomState, called by a tool) with an error object, the method's
\* promise rejects and the tool returns an error result, not its success
\* message.
C22_BridgeErrorFails ==
  \A k \in ToolIds :
    LET t == toolCalls[k] IN
    (/\ t.op # 0
     /\ \E c \in CallsOfOp(t.op) :
          /\ ops[t.op].kind \in {"setLightState", "setRoomState"}
          /\ calls[c].method = "PUT"
          /\ result[c].kind = "resolve"
          /\ IsBridgeError(result[c].doc)) =>
      /\ OpSettlement(t.op).kind = "reject"
      /\ Returned(k).isError

\* the tools that take a colour, and the invocations of them on a server
\* that is configured
ColourTools == {"set_light_color", "set_room_color", "set_all_lights_color",
                "set_light_state", "set_room_state"}
ColourCalls ==
  {k \in ToolIds : toolCalls[k].tool \in ColourTools /\ HUE_BRIDGE_IP # "" /\ HUE_USERNAME # ""}
\* the invocation called no method of the client and sent no request
NothingSent(k) == toolCalls[k].op = 0 /\ toolCalls[k].direct = "none"

C24_ForwardedToItsSession ==
  [][(AddsEvent /\ NewEvent.verb \in Verbs /\ NewEvent.sid \in DOMAIN transports) =>
       /\ NewEvent.to = transports[NewEvent.sid]
       /\ tr[NewEvent.to].sessionId = NewEvent.sid
       /\ NewEvent.status = 0 /\ NewEvent.body = "transport"
       /\ NewEvent.made = NoTransport
       /\ \A x \in DOMAIN transports \ {NewEvent.sid} : transports[x] # NewEvent.to]_vars

\* two sessions are active; a POST with the identifier of the first reached
\* the first transport and a GET with the identifier of the second the second
C24_Witness ==
  /\ Cardinality(DOMAIN transports) = 2
  /\ \E i, j \in 1..Len(events) :
       /\ events[i].verb = "POST" /\ events[i].made = NoTransport /\ events[i].to = 1
       /\ events[i].sid = tr[1].sessionId
       /\ events[j].verb = "GET" /\ events[j].to = 2
       /\ events[j].sid = tr[2].sessionId

\* C25: a step of the endpoint (a handshake, a request forwarded or
\* rejected, a close) leaves the table entry of every session but the one
\* the step is about, and the transport that entry maps to, as they were;
\* a request that is forwarded and does not end its session changes no
\* entry at all; and in the table no two identifiers map to one transport,
\* each mapping to the transport that was created with it.
C25_SessionsIndependent ==
  [][AddsEvent =>
       /\ \A x \in DOMAIN transports \ {NewEvent.sid} :
            /\ x \in DOMAIN transports'
            /\ transports'[x] = transports[x]
            /\ tr'[transports[x]] = tr[transports[x]]
       /\ (NewEvent.verb \in {"POST", "GET"} /\ NewEvent.made = NoTransport) =>
            transports' = transports /\ tr' = tr
       /\ \A x, y \in DOMAIN transports' : x # y => transports'[x] # transports'[y]
       /\ \A x \in DOMAIN transports' :
            tr'[transports'[x]].sessionId = x /\ ~tr'[transports'[x]].closed]_vars

\* two sessions were created, one was ended by DELETE, and a GET with the
\* identifier of the other then reached the other's transport, still in
\* the table
C25_Witness ==
  /\ Len(events) = 4
  /\ events[3].verb = "DELETE" /\ events[3].to # NoTransport
  /\ events[4].verb = "GET" /\ events[4].to # NoTransport
  /\ events[4].to # events[3].to
  /\ DOMAIN transports = {events[4].sid}
  /\ transports[events[4].sid] = events[4].to

\* C26: the attempts of one call are contiguous on the wire: between two
\* exchanges of a call there is no exchange of another call (an exchange
\* that has an earlier exchange of its call follows one of its call), and the
\* attempts of a call follow one another in order, each started when the
\* one before it had failed.
C26_RetriesContiguous ==
  /\ \A j, k \in 1..Len(wire) :
       (j < k /\ wire[j].call = wire[k].call) => wire[k - 1].call = wire[k].call
  /\ \A k \in 2..Len(wire) :
       wire[k].i > 0 =>
         /\ wire[k - 1].call = wire[k].call
         /\ wire[k - 1].i = wire[k].i - 1
         /\ Failed(wire[k - 1])

\* three calls were queued; the first failed twice and succeeded on its
\* third attempt, and only then the second made its first attempt, which
\* failed, and is on its retry: the wire reads 1, 1, 1, 2, 2
C26_Witness ==
  /\ Len(calls) = 3
  /\ Len(wire) = 5
  /\ \A k \in 1..3 : wire[k].call = 1
  /\ wire[3].end = "ok"
  /\ wire[4].call = 2 /\ Failed(wire[4])
  /\ wire[5].call = 2 /\ wire[5].end = "open"

\* the lookups and the scene-select PUTs among the calls of operation o
LookupsOf(o) == {c \in CallsOfOp(o) : calls[c].method = "GET"}
PutsOf(o) == {c \in CallsOfOp(o) : calls[c].method = "PUT"}

\* C27: an activateScene without a group identifier queues one GET /scenes
\* and, once that call has resolved and not before, one PUT, behind
\* whatever was queued meanwhile; a lookup that rejected after its three
\* attempts rejects the activation with its error and no PUT is queued or
\* sent; the calls queued between the lookup and the PUT have settled
\* before the PUT makes its first attempt.
C27_PutAfterLookup ==
  \A o \in OpsOfKind("activateScene") :
    ~Truthy(ops[o].id) =>
      /\ Cardinality(LookupsOf(o)) = 1
      /\ Cardinality(PutsOf(o)) <= 1
      /\ \A g \in LookupsOf(o) :
           /\ (PutsOf(o) # {}) <=> (result[g].kind = "resolve")
           /\ result[g].kind = "reject" =>
                /\ OpSettlement(o) = Rejected(result[g].err)
                /\ Len(AttemptsOf(g)) = 3
                /\ \A k \in ExchangesOfOp(o) : wire[k].method = "GET"
           /\ \A p \in PutsOf(o) :
                /\ g < p
                /\ \A j, k \in ExchangesOfOp(o) :
                     (wire[j].call = g /\ wire[k].call = p) => j < k /\ wire[j].end # "open"
                /\ \A c \in (g + 1)..(p - 1) :
                     /\ calls[c].op # o
                     /\ AttemptsOf(p) # << >> => Settled(c)

\* activateScene("s2") without a group: while its lookup was in flight
\* another caller asked for the lights; the lookup resolved, the lights
\* were read, and the PUT to /groups/0/action went out after both
C27_Witness ==
  /\ Len(calls) = 3
  /\ ops[calls[1].op].kind = "activateScene" /\ calls[1].method = "GET"
  /\ ops[calls[2].op].kind = "getLights"
  /\ calls[3].op = calls[1].op /\ calls[3].method = "PUT"
  /\ Len(wire) = 3
  /\ wire[1].call = 1 /\ wire[2].call = 2 /\ wire[3].call = 3
  /\ wire[3].path = "/groups/0/action"

(***************************************************************************)
(* Properties of the tools invoked on sessions                             *)
(***************************************************************************)
\* the requests that carried a tool invocation, in order: the k-th is the
\* request of invocation k
ToolEvents ==
  SelectSeq(events, LAMBDA e : e.verb = "POST" /\ e.to # NoTransport /\ e.made = NoTransport)
SessionOf(k) == ToolEvents[k].sid

\* the invocations that called a method of the client
ClientCalls == {k \in ToolIds : toolCalls[k].op # 0}

\* C28: the calls the tools make for whatever session go through the one
\* queue of the one client: each call is chained on the call submitted just
\* before it, by whichever session; on the wire an exchange has ended
\* before the next one starts; and the exchanges made for two invocations
\* run in the order in which the invocations arrived, of whichever sessions.
C28_OneQueueForAllSessions ==
  /\ Len(ToolEvents) = Len(toolCalls)
  /\ \A c \in CallIds : calls[c].prev = c - 1
  /\ \A j, k \in 1..Len(wire) : j < k => wire[j].end # "open"
  /\ \A m, n \in ClientCalls :
       m < n =>
         /\ toolCalls[m].op < toolCalls[n].op
         /\ \A j \in ExchangesOfOp(toolCalls[m].op), k \in ExchangesOfOp(toolCalls[n].op) :
              j < k /\ wire[j].end # "open"
         /\ (ExchangesOfOp(toolCalls[n].op) # {}) =>
              \A c \in CallsOfOp(toolCalls[m].op) : Settled(c)

\* turn_light_on was invoked on one session and then on another while the
\* first call was still on its way: the exchange for the first session
\* failed once and was retried, and the exchange for the second followed it
C28_Witness ==
  /\ Len(toolCalls) = 2
  /\ ClientCalls = {1, 2}
  /\ SessionOf(1) # SessionOf(2)
  /\ Len(wire) = 3
  /\ wire[1].call = 1 /\ Failed(wire[1])
  /\ wire[2].call = 1 /\ wire[2].end = "ok"
  /\ wire[3].call = 2

\* the invocations whose handler has a request of its own in flight
DirectOpen == {k \in ToolIds : toolCalls[k].direct = "open"}

\* C29: create_auth_token and discover_bridges send their request beside
\* the queue of the client: they queue no call, and a queued call never
\* waits for their request: the call at the head of the queue, the calls
\* before it settled, can start while that request is in flight.
C29_DirectBesideQueue ==
  /\ \A k \in ToolIds :
       toolCalls[k].tool \in {"create_auth_token", "discover_bridges"} =>
         toolCalls[k].op = 0 /\ toolCalls[k].direct # "none"
  /\ Len(ops) = Cardinality(ClientCalls)
  /\ \A c \in CallIds :
       (/\ ~crashed
        /\ AttemptsOf(c) = << >>
        /\ \A b \in 1..(c - 1) : Settled(b)) => ENABLED StartCall(c)

\* the pairing request of create_auth_token is in flight, and so is the
\* exchange of a call of turn_light_on that was queued after it
C29_Witness ==
  \E k \in DirectOpen :
    /\ toolCalls[k].tool = "create_auth_token"
    /\ \E m \in ClientCalls :
         /\ k < m
         /\ \E c \in CallsOfOp(toolCalls[m].op) : InFlight(c)

====
